---- MODULE Spec2Model ----
(***************************************************************************)
(* Model of phypno/ioeeg/ktlx.py: the reader of segmented KTLX recordings. *)
(*                                                                         *)
(* A recording is a directory holding .erd raw-data files (one per         *)
(* segment), one .stc segment table of contents and one .eeg file.  The    *)
(* model keeps the directory, the Ktlx object and the outcome of the last  *)
(* call.  Files are inputs: Init draws them from bounded families, and     *)
(* the actions are the functions of the module applied to them.            *)
(*                                                                         *)
(* Values of the decoded matrix are numpy float64 holding integers; they   *)
(* are modelled as integers.  A physical value factor * raw is modelled    *)
(* as (band constant, raw * 2^discardbits), the latter a fraction in       *)
(* lowest terms mant / den; it identifies the product because scaling by   *)
(* a power of two is exact; 0.0 is Zero.                                   *)
(* A call's outcome is a record whose status is "ok" or the name of the    *)
(* exception the call raises.                                              *)
(***************************************************************************)
EXTENDS Integers, Sequences, FiniteSets, TLC

VARIABLES dir,   \* the recording directory: .eeg files, .erd files, .stc file
          gen,   \* what the directory's files were generated from (known deltas)
          ktlx,  \* the Ktlx object, or NoObject before / after a failed construction
          ret    \* the last call: operation, arguments, outcome

vars == <<dir, gen, ktlx, ret>>

----------------------------------------------------------------------------
(* Bounds of the input families.                                           *)

MaxChan == 2       \* channels of a generated raw-data file: 1..MaxChan
MaxSamples == 2    \* sample records of a generated raw-data file: 0..MaxSamples
MaxDiscard == 1    \* discard-bit counts -MaxDiscard..MaxDiscard
MaxConvChan == 29  \* channel counts of the conversion inputs: 1..MaxConvChan
MaxSeg == 3        \* segments of a generated recording: 1..MaxSeg
MaxSpan == 2       \* samples of one segment: 1..MaxSpan

----------------------------------------------------------------------------
(* Python helpers.                                                         *)

BITS_IN_BYTE == 8

Min(a, b) == IF a < b THEN a ELSE b
Max(a, b) == IF a > b THEN a ELSE b

\* The weight of bit n of an integer, n a natural number.
RECURSIVE Pow2(_)
Pow2(n) == IF n = 0 THEN 1 ELSE 2 * Pow2(n - 1)

\* The bounds of the slice a:b of an axis of length n (negative indices
\* count from the end, both are clipped).
SliceBound(k, n) == IF k < 0 THEN Max(k + n, 0) ELSE Min(k, n)

\* s[a:b] of a Python sequence, 0 <= a (0-based, b exclusive, clipped).
PySlice(s, a, b) ==
  LET hi == Min(b, Len(s))
  IN  IF a >= hi THEN << >> ELSE SubSeq(s, a + 1, hi)

\* int(ceil(a / b)) under true division, for a >= 0, b > 0.
CeilDiv(a, b) == (a + b - 1) \div b

\* n copies of x.
Ones(n, x) == [k \in 1..Max(n, 0) |-> x]

\* struct.unpack of 'b', 'h', 'i' (native little-endian, two's complement).
UnpackB(val) == IF val[1] >= 128 THEN val[1] - 256 ELSE val[1]
UnpackH(val) ==
  LET u == val[1] + 256 * val[2]
  IN  IF u >= 32768 THEN u - 65536 ELSE u
UnpackI(val) ==
  val[1] + 256 * val[2] + 65536 * val[3]
    + 16777216 * (IF val[4] >= 128 THEN val[4] - 256 ELSE val[4])

----------------------------------------------------------------------------
(* _calculate_conversion.  A factor is [band, mult]: band names the        *)
(* headbox constant, mult is 2 ** discardbits as the fraction num / den;   *)
(* the common 1e-6 is left out.                                            *)

\* 2 ** discardbits: 2^n for n >= 0, 1 / 2^(-n) for n < 0.
DiscardFactor(discardbits) ==
  [num |-> Pow2(Max(discardbits, 0)), den |-> Pow2(Max(0 - discardbits, 0))]

BandEEG == "8711/(221-0.5)"
BandDC4 == "(5000000/(210-0.5))/26"
BandOxi == "1/26"
BandDC22 == "(10800000/65536)/26"

Bands(headbox, n_chan) ==
  CASE headbox \in {1, 3} -> Ones(n_chan, BandEEG)
    [] headbox = 4  -> Ones(24, BandEEG) \o Ones(4, BandDC4)
    [] headbox = 21 -> Ones(128, BandEEG) \o Ones(2, BandOxi) \o Ones(126, BandEEG)
    [] headbox = 22 -> Ones(32, BandEEG) \o Ones(8, BandDC22) \o Ones(2, BandOxi)
                         \o Ones(1, BandDC22)
    [] OTHER -> << >>

calculate_conversion(hdr) ==
  LET discardbits == hdr.discardbits
      n_chan == hdr.num_channels
      headbox == hdr.headbox_type[1]
  IN  IF headbox \notin {1, 3, 4, 21, 22}
        THEN [status |-> "NotImplementedError", factor |-> << >>]
      ELSE IF headbox \in {1, 3} /\ n_chan < 0
        THEN [status |-> "ValueError", factor |-> << >>]
        ELSE LET factor == Bands(headbox, n_chan)
             IN  [status |-> "ok",
                  factor |-> [k \in 1..SliceBound(n_chan, Len(factor)) |->
                                [band |-> factor[k],
                                 mult |-> DiscardFactor(discardbits)]]]

\* 0.0 as a physical value.
Zero == [band |-> "0", mant |-> 0, den |-> 1]

\* The fraction num / den, den a power of two, in lowest terms.
RECURSIVE Lowest(_, _, _)
Lowest(band, num, den) ==
  IF den > 1 /\ num % 2 = 0 THEN Lowest(band, num \div 2, den \div 2)
  ELSE [band |-> band, mant |-> num, den |-> den]

\* factor * value of numpy: the product of a factor and a raw value.
Mul(f, v) ==
  IF v = 0 THEN Zero ELSE Lowest(f.band, v * f.mult.num, f.mult.den)

----------------------------------------------------------------------------
(* Files.  An .erd file is its header fields and `data`, the bytes that    *)
(* follow the header of its schema; byte i of the file, for i at or after  *)
(* the header, is data[i - header length].                                 *)

\* None, and the absence of an object or a file.
NoObject == [none |-> TRUE]

\* The length of the fixed header of a schema: 352 bytes, up to discardbits
\* at 4556 for schema 7 and above, and two tables of 2048 bytes more for
\* schema 8 and above.
HeaderBytes(file_schema) ==
  IF file_schema >= 8 THEN 8656 ELSE IF file_schema >= 7 THEN 4560 ELSE 352

\* The length of the file: its header and its data.
FileSize(file) == HeaderBytes(file.file_schema) + Len(file.data)

\* Lines 497-514, the fields of schema 7 and above.  phys_chan, read at
\* byte 368, takes num_channels * 4 bytes: f.read of a negative length
\* raises ValueError, unpack of too few bytes struct.error.
read_hdr_fields(file) ==
  IF file.num_channels < 0
    THEN [status |-> "ValueError", hdr |-> NoObject]
  ELSE IF 368 + 4 * file.num_channels > FileSize(file)
    THEN [status |-> "struct.error", hdr |-> NoObject]
  ELSE [status |-> "ok",
        hdr |-> [file_schema |-> file.file_schema,
                 base_schema |-> file.base_schema,
                 sample_freq |-> file.sample_freq,
                 num_channels |-> file.num_channels,
                 headbox_type |-> file.headbox_type,
                 discardbits |-> file.discardbits]]

\* A header reader that checks base_schema before file_schema.
read_hdr_file_base_first(file) ==
  IF file.base_schema # 1
    THEN [status |-> "NotImplementedError base_schema", hdr |-> NoObject]
  ELSE IF file.file_schema \notin {1, 7, 8, 9}
    THEN [status |-> "NotImplementedError file_schema", hdr |-> NoObject]
  ELSE IF file.file_schema >= 7
    THEN read_hdr_fields(file)
  ELSE [status |-> "ok",
        hdr |-> [file_schema |-> file.file_schema,
                 base_schema |-> file.base_schema]]

\* _read_hdr_file: the header dict, or the exception raised.  The dict of a
\* schema below 7 has no sample_freq, num_channels, headbox_type,
\* discardbits.
read_hdr_file(file) ==
  IF file.file_schema \notin {1, 7, 8, 9}
    THEN [status |-> "NotImplementedError file_schema", hdr |-> NoObject]
  ELSE IF file.base_schema # 1
    THEN [status |-> "NotImplementedError base_schema", hdr |-> NoObject]
  ELSE IF file.file_schema >= 7
    THEN read_hdr_fields(file)
  ELSE [status |-> "ok",
        hdr |-> [file_schema |-> file.file_schema,
                 base_schema |-> file.base_schema]]

----------------------------------------------------------------------------
(* _read_erd.  The matrix `output` is a function of the channel index and  *)
(* the sample index, both 0-based as in the code.                          *)

\* The cursor's start: the end of the header of the file's schema.
FirstByte(file_schema) == IF file_schema = 7 THEN 4560 ELSE 8656

\* The escape value: b'\x80' for schema 7, b'\xff\xff' for schemas 8 and 9.
AbsDelta(file_schema) == IF file_schema = 7 THEN <<128>> ELSE <<255, 255>>

\* filebytes[i:i+k]
FileBytes(file, i, k) ==
  LET off == FirstByte(file.file_schema)
  IN  PySlice(file.data, i - off, i - off + k)

\* numpy's index k of an axis of length n (a negative index counts from the end).
PyIndex(k, n) == IF k < 0 THEN k + n ELSE k

\* zeros((n_chan, n_samples)), a matrix of raw values.
Zeros(n_rows, n_cols) == [r \in 0..(n_rows - 1) |-> [c \in 0..(n_cols - 1) |-> 0]]

\* zeros((len(chan), endsam - begsam)), a matrix of physical values.
ZerosDat(n_rows, n_cols) ==
  [r \in 0..(n_rows - 1) |-> [c \in 0..(n_cols - 1) |-> Zero]]

\* A decoder that takes the bits of a mask byte most significant first.
MaskBitMSB(file_schema, byte_deltamask, i_c) ==
  IF file_schema = 7 THEN 0
  ELSE (byte_deltamask[(i_c \div BITS_IN_BYTE) + 1]
          \div Pow2(BITS_IN_BYTE - 1 - (i_c % BITS_IN_BYTE))) % 2

\* deltamask[i_c]: 0 for schema 7; else bit i_c % 8, least significant first,
\* of mask byte i_c // 8.
MaskBit(file_schema, byte_deltamask, i_c) ==
  IF file_schema = 7 THEN 0
  ELSE (byte_deltamask[(i_c \div BITS_IN_BYTE) + 1]
          \div Pow2(i_c % BITS_IN_BYTE)) % 2

\* The running value a delta is added to: output[i_c, sam - 1].
Previous(output, i_c, sam, n_samples) == output[i_c][PyIndex(sam - 1, n_samples)]

\* A decoder that reads the delta bytes as unsigned.
SlotDeltaUnsigned(m, val) == IF m = 1 THEN val[1] + 256 * val[2] ELSE val[1]

\* The value of a delta slot: unpack('h', val) or unpack('b', val).
SlotDelta(m, val) == IF m = 1 THEN UnpackH(val) ELSE UnpackB(val)

\* A decoder that adds the absolute value to the running value.
StoreAbsoluteAdded(output, i_c, sam, n_samples, val) ==
  [output EXCEPT ![i_c][sam] =
     output[i_c][PyIndex(sam - 1, n_samples)] + UnpackI(val)]

\* Line 305: output[i_c, sam] = unpack('i', val)[0].
StoreAbsolute(output, i_c, sam, n_samples, val) ==
  [output EXCEPT ![i_c][sam] = UnpackI(val)]

\* Lines 282-300: the delta slots of channels i_c, i_c + 1, ... of sample sam.
RECURSIVE DeltaInformation(_, _, _, _, _, _)
DeltaInformation(file, n_chan, byte_deltamask, sam, i_c, st) ==
  IF i_c >= n_chan \/ st.status # "ok" THEN st
  ELSE
    LET m == MaskBit(file.file_schema, byte_deltamask, i_c)
        w == IF m = 1 THEN 2 ELSE 1
        val == FileBytes(file, st.i, w)
        n_samples == st.n_samples
    IN  IF val = AbsDelta(file.file_schema)
          THEN DeltaInformation(file, n_chan, byte_deltamask, sam, i_c + 1,
                 [st EXCEPT !.i = @ + w, !.absvalue = @ \cup {i_c}])
        ELSE IF Len(val) # w
          THEN [st EXCEPT !.i = @ + w, !.status = "struct.error"]
        ELSE DeltaInformation(file, n_chan, byte_deltamask, sam, i_c + 1,
               [st EXCEPT !.i = @ + w,
                          !.output[i_c][sam] =
                             Previous(st.output, i_c, sam, n_samples)
                               + SlotDelta(m, val)])

\* Lines 303-306: the absolute values of the channels marked in absvalue,
\* in ascending channel order.
RECURSIVE AbsoluteValues(_, _, _, _, _)
AbsoluteValues(file, n_chan, sam, i_c, st) ==
  IF i_c >= n_chan \/ st.status # "ok" THEN st
  ELSE IF i_c \notin st.absvalue
    THEN AbsoluteValues(file, n_chan, sam, i_c + 1, st)
  ELSE
    LET val == FileBytes(file, st.i, 4)
    IN  IF Len(val) # 4
          THEN [st EXCEPT !.status = "struct.error"]
          ELSE AbsoluteValues(file, n_chan, sam, i_c + 1,
                 [st EXCEPT !.i = @ + 4,
                            !.output = StoreAbsolute(@, i_c, sam, st.n_samples, val)])

\* Lines 253-306: the records of samples sam, sam + 1, ...  A bad event
\* byte changes nothing: the Exception of line 264 is built, never raised.
RECURSIVE SampleLoop(_, _, _, _)
SampleLoop(file, n_chan, sam, st) ==
  IF sam >= st.n_samples \/ st.status # "ok" THEN st
  ELSE
    LET eventbite == FileBytes(file, st.i, 1)
        s1 == [st EXCEPT !.i = @ + 1]
        l_deltamask == CeilDiv(n_chan, BITS_IN_BYTE)
    IN  IF eventbite = << >> THEN s1
        ELSE
          LET byte_deltamask ==
                IF file.file_schema = 7 THEN << >>
                ELSE FileBytes(file, s1.i, l_deltamask)
              s2 == IF file.file_schema = 7 THEN s1
                    ELSE IF Len(byte_deltamask) # l_deltamask
                      THEN [s1 EXCEPT !.status = "struct.error"]
                    ELSE [s1 EXCEPT !.i = @ + l_deltamask]
              s3 == DeltaInformation(file, n_chan, byte_deltamask, sam, 0,
                                     [s2 EXCEPT !.absvalue = {}])
              s4 == AbsoluteValues(file, n_chan, sam, 0, s3)
          IN  SampleLoop(file, n_chan, sam + 1, s4)

\* Lines 236-306: the decoder before scaling: status, the matrix `output`
\* and the byte cursor i when the loop ends.
Decode(file, n_samples) ==
  LET h == read_hdr_file(file)
      none == [status |-> h.status, output |-> << >>, i |-> 0,
               n_samples |-> n_samples, absvalue |-> {}]
  IN  IF h.status # "ok" THEN none
      ELSE IF h.hdr.file_schema < 7 THEN [none EXCEPT !.status = "KeyError"]
      ELSE IF n_samples < 0 THEN [none EXCEPT !.status = "ValueError"]
      ELSE SampleLoop(file, h.hdr.num_channels, 0,
             [status |-> "ok",
              output |-> Zeros(h.hdr.num_channels, n_samples),
              i |-> FirstByte(file.file_schema),
              n_samples |-> n_samples,
              absvalue |-> {}])

\* expand_dims(factor, 1) * output: row c scaled by factor[c]; the shapes
\* must agree.
Scale(factor, output, n_chan) ==
  IF Len(factor) # n_chan /\ Len(factor) # 1 /\ n_chan # 1
    THEN [status |-> "ValueError", value |-> << >>]
    ELSE [status |-> "ok",
          value |-> [r \in 0..(Max(n_chan, Len(factor)) - 1) |->
                      LET f == factor[IF Len(factor) = 1 THEN 1 ELSE r + 1]
                          row == output[IF n_chan = 1 THEN 0 ELSE r]
                      IN  [c \in DOMAIN row |-> Mul(f, row[c])]]]

\* _read_erd(erd_file, n_samples): the scaled matrix, or the exception.
read_erd(file, n_samples) ==
  LET d == Decode(file, n_samples)
  IN  IF d.status # "ok" THEN [status |-> d.status, value |-> << >>]
      ELSE LET h == read_hdr_file(file).hdr
               conv == calculate_conversion(h)
           IN  IF conv.status # "ok"
                 THEN [status |-> conv.status, value |-> << >>]
                 ELSE Scale(conv.factor, d.output, h.num_channels)

----------------------------------------------------------------------------
(* _read_stc and Ktlx.  The .stc file is its records (the stamps) and      *)
(* whether a partial record follows them; the 56 bytes after the generic   *)
(* header are left out.                                                    *)

\* _read_stc: all_stamp, the records in file order; no field is checked.
read_stc(stc) ==
  IF ~stc.exists THEN [status |-> "IOError", all_stamp |-> << >>]
  ELSE IF stc.partial THEN [status |-> "struct.error", all_stamp |-> << >>]
  ELSE [status |-> "ok", all_stamp |-> stc.records]

\* splitext(name)[0]: the name up to its last dot.  Of the names of the
\* directories only "rec.v1" holds a dot.
SplitExt(name) == IF name = "rec.v1" THEN "rec" ELSE name

\* _read_stc on the .stc file of that name, which may be missing.
read_stc_named(d, name) ==
  IF d.stc.exists /\ d.stc.name # name
    THEN [status |-> "IOError", all_stamp |-> << >>]
    ELSE read_stc(d.stc)

\* _read_hdr_file on the file of that name, which may be missing.
read_hdr_named(d, name) ==
  IF name \notin DOMAIN d.erd THEN [status |-> "IOError", hdr |-> NoObject]
  ELSE read_hdr_file(d.erd[name])

\* Ktlx._read_hdr_dir: _basename and the header dict, or the exception.
read_hdr_dir(d) ==
  LET found == d.name \in d.eeg \/ Cardinality(d.eeg) = 1
      base == IF d.name \in d.eeg THEN SplitExt(d.name)
              ELSE CHOOSE b \in d.eeg : TRUE
      none == [status |-> "IOError", basename |-> NoObject, hdr |-> NoObject]
  IN  IF ~found THEN none
      ELSE LET erd == read_hdr_named(d, base)
               stc == read_stc_named(d, base)
           IN  IF erd.status # "ok" THEN [none EXCEPT !.status = erd.status]
               ELSE IF stc.status # "ok" THEN [none EXCEPT !.status = stc.status]
               ELSE [status |-> "ok", basename |-> base,
                     hdr |-> [erd |-> erd.hdr, stamps |-> stc.all_stamp]]

\* Ktlx.__init__(ktlx_dir): the object's attributes.  An argument that is
\* not a str sets none.
Ktlx_init(d, is_str) ==
  IF ~is_str THEN [status |-> "ok", obj |-> [attrs |-> {}]]
  ELSE LET h == read_hdr_dir(d)
       IN  IF h.status # "ok" THEN [status |-> h.status, obj |-> NoObject]
           ELSE [status |-> "ok",
                 obj |-> [attrs |-> {"filename", "_basename", "_hdr"},
                          filename |-> d.name, basename |-> h.basename,
                          hdr |-> h.hdr]]

\* concatenate((array([0]), cumsum(all_samples)))
RECURSIVE SumTo(_, _)
SumTo(all_samples, k) == IF k = 0 THEN 0 ELSE SumTo(all_samples, k - 1) + all_samples[k]
CumSum0(all_samples) == [k \in 0..Len(all_samples) |-> SumTo(all_samples, k)]

\* where(cond)[0][-1]: the last index of n_sam_rec whose entry is in S.
SetMax(S) == CHOOSE x \in S : \A y \in S : y <= x

\* Line 598: the local end of a segment that is not the last of the request.
EndposInner(n_sam_rec, rec) == n_sam_rec[rec] + 1

\* Line 605: dat[:, d1:d2] = dat_rec[chan, begpos_rec:endpos_rec].  A
\* negative entry of chan counts rows from the last; dat_rec has endpos_rec
\* columns, also when it has no row.
AssignSlice(dat, d1, d2, dat_rec, chan, begpos_rec, endpos_rec, n_cols) ==
  LET lo == SliceBound(d1, n_cols)
      hi == SliceBound(d2, n_cols)
      m == Max(hi - lo, 0)
      n_rows == Cardinality(DOMAIN dat_rec)
      src_cols == IF n_rows = 0 THEN Max(endpos_rec, 0)
                  ELSE Cardinality(DOMAIN dat_rec[0])
      slo == SliceBound(begpos_rec, src_cols)
      shi == SliceBound(endpos_rec, src_cols)
      k == Max(shi - slo, 0)
  IN  IF \E j \in 1..Len(chan) : chan[j] < 0 - n_rows \/ chan[j] >= n_rows
        THEN [status |-> "IndexError", dat |-> dat]
      ELSE IF k # m /\ k # 1
        THEN [status |-> "ValueError", dat |-> dat]
      ELSE [status |-> "ok",
            dat |-> [r \in DOMAIN dat |->
                      [c \in DOMAIN dat[r] |->
                        IF c >= lo /\ c < hi
                          THEN dat_rec[PyIndex(chan[r + 1], n_rows)]
                                      [IF k = 1 THEN slo ELSE slo + (c - lo)]
                          ELSE dat[r][c]]]]

\* Lines 589-607: the segments rec, rec + 1, ..., endrec of the request.
RECURSIVE SegmentLoop(_, _, _, _, _, _)
SegmentLoop(d, q, all_stamp, n_sam_rec, rec, st) ==
  IF rec > q.endrec \/ st.status # "ok" THEN st
  ELSE
    LET begpos_rec == IF rec = q.begrec THEN q.begsam - n_sam_rec[rec] ELSE 0
        endpos_rec == IF rec = q.endrec THEN q.endsam - n_sam_rec[rec]
                      ELSE EndposInner(n_sam_rec, rec)
        d2 == endpos_rec - begpos_rec + st.d1
    IN  IF rec + 1 > Len(all_stamp)
          THEN [st EXCEPT !.status = "IndexError"]
        ELSE IF all_stamp[rec + 1].segment_name \notin DOMAIN d.erd
          THEN [st EXCEPT !.status = "IOError"]
        ELSE
          LET erd_file == all_stamp[rec + 1].segment_name
              dat_rec == read_erd(d.erd[erd_file], endpos_rec)
              opened == Append(st.opened, erd_file)
          IN  IF dat_rec.status # "ok"
                THEN [st EXCEPT !.status = dat_rec.status, !.opened = opened]
              ELSE
                LET a == AssignSlice(st.dat, st.d1, d2, dat_rec.value, q.chan,
                                     begpos_rec, endpos_rec, q.endsam - q.begsam)
                IN  SegmentLoop(d, q, all_stamp, n_sam_rec, rec + 1,
                      [status |-> a.status, dat |-> a.dat, d1 |-> d2,
                       opened |-> opened])

\* A chan argument is [int |-> c] or [list |-> <<c, ...>>]: isinstance(chan, int).
IsInt(chan) == "int" \in DOMAIN chan

\* Ktlx.return_dat(chan, begsam, endsam): the matrix or the exception, and
\* the .erd files it opened on the way.
return_dat(d, obj, chan, begsam, endsam) ==
  LET chans == IF IsInt(chan) THEN <<chan.int>> ELSE chan.list
      none == [status |-> "ok", dat |-> << >>, d1 |-> 0, opened |-> << >>]
  IN  IF "filename" \notin obj.attrs
        THEN [none EXCEPT !.status = "AttributeError"]
      ELSE
        LET stc == read_stc_named(d, obj.basename)
            all_samples == [k \in 1..Len(stc.all_stamp) |->
                              stc.all_stamp[k].sample_span]
            n_sam_rec == CumSum0(all_samples)
            begs == {k \in DOMAIN n_sam_rec : n_sam_rec[k] <= begsam}
            ends == {k \in DOMAIN n_sam_rec : n_sam_rec[k] < endsam}
        IN  IF stc.status # "ok" THEN [none EXCEPT !.status = stc.status]
            ELSE IF begs = {} \/ ends = {} THEN [none EXCEPT !.status = "IndexError"]
            ELSE IF endsam - begsam < 0 THEN [none EXCEPT !.status = "ValueError"]
            ELSE SegmentLoop(d,
                   [chan |-> chans, begsam |-> begsam, endsam |-> endsam,
                    begrec |-> SetMax(begs), endrec |-> SetMax(ends)],
                   stc.all_stamp, n_sam_rec, SetMax(begs),
                   [none EXCEPT !.dat = ZerosDat(Len(chans), endsam - begsam)])

\* Ktlx.return_hdr(): s_freq, the number of names in chan_name, n_samples,
\* or the exception; and self after the call.  The directories hold no .ent
\* file, so that orig['notes'], an entry of self._hdr['erd'], is set to the
\* fallback text.  subj_id and start_time are left out.
return_hdr(obj) ==
  LET none == [status |-> "ok", s_freq |-> 0, chan_name |-> 0,
               n_samples |-> 0, self |-> obj]
  IN  IF "_hdr" \notin obj.attrs
        THEN [none EXCEPT !.status = "AttributeError"]
      ELSE
        LET orig == obj.hdr.erd
        IN  IF "sample_freq" \notin DOMAIN orig \/ "num_channels" \notin DOMAIN orig
              THEN [none EXCEPT !.status = "KeyError"]
            ELSE [status |-> "ok",
                  s_freq |-> orig.sample_freq,
                  chan_name |-> Max(orig.num_channels, 0),
                  n_samples |-> SumTo([k \in 1..Len(obj.hdr.stamps) |->
                                        obj.hdr.stamps[k].sample_span],
                                     Len(obj.hdr.stamps)),
                  self |-> [obj EXCEPT !.hdr.erd =
                              [notes |-> "could not find .ent file"] @@ orig]]

----------------------------------------------------------------------------
(* The test encoder: raw-data files built from known deltas.  A sample     *)
(* record of the generator is [a, b]: the slot kind of the even and of the *)
(* odd channels, "n" a narrow delta, "w" a wide delta (schema 7 has no     *)
(* wide slot: a second narrow delta), "e" the escape value followed by an  *)
(* absolute value.  The values depend on the channel.                      *)

Kinds == {"n", "w", "e"}

KindOf(rec, c) == IF c % 2 = 0 THEN rec.a ELSE rec.b

IsWide(file_schema, kind) == file_schema # 7 /\ kind \in {"w", "e"}

\* The delta of a slot of kind "n" or "w", the absolute value of a slot "e".
GenValue(file_schema, kind, c) ==
  CASE kind = "n" -> 5 - 8 * c
    [] kind = "w" -> IF file_schema = 7 THEN 100 - 20 * c ELSE 300 - 600 * c
    [] kind = "e" -> IF c % 2 = 0 THEN 1000 + c ELSE 0 - (1000 + c)

\* The k bytes of v, little-endian two's complement.
ToBytes(v, k) == [j \in 1..k |-> (v \div Pow2(8 * (j - 1))) % 256]

RECURSIVE Concat(_)
Concat(ss) == IF ss = << >> THEN << >> ELSE Head(ss) \o Concat(Tail(ss))

\* The delta mask of a record: bit c set for a wide slot, the bits past the
\* last channel set.
GenMask(file_schema, n_chan, rec) ==
  IF file_schema = 7 THEN << >>
  ELSE [k \in 1..CeilDiv(n_chan, BITS_IN_BYTE) |->
         LET bit(c) == IF c >= n_chan \/ IsWide(file_schema, KindOf(rec, c))
                         THEN 1 ELSE 0
             base == BITS_IN_BYTE * (k - 1)
         IN  bit(base) + 2 * bit(base + 1) + 4 * bit(base + 2)
               + 8 * bit(base + 3) + 16 * bit(base + 4) + 32 * bit(base + 5)
               + 64 * bit(base + 6) + 128 * bit(base + 7)]

GenSlot(file_schema, kind, c) ==
  IF kind = "e" THEN AbsDelta(file_schema)
  ELSE ToBytes(GenValue(file_schema, kind, c),
               IF IsWide(file_schema, kind) THEN 2 ELSE 1)

\* The bytes of one sample record with event byte ev.
GenRecord(file_schema, n_chan, rec, ev) ==
  <<ev>> \o GenMask(file_schema, n_chan, rec)
    \o Concat([k \in 1..n_chan |-> GenSlot(file_schema, KindOf(rec, k - 1), k - 1)])
    \o Concat([k \in 1..n_chan |->
                 IF KindOf(rec, k - 1) = "e"
                   THEN ToBytes(GenValue(file_schema, "e", k - 1), 4)
                   ELSE << >>])

\* What is wrong with a generated stream: nothing, the first event byte is
\* 1 (trigger) or 2 (corrupt), or the given number of bytes is missing at
\* the end.
Defects == {"none", "trigger", "badevent", "cut1", "cut2", "cut5"}

CutOf(defect) ==
  CASE defect = "cut1" -> 1 [] defect = "cut2" -> 2 [] defect = "cut5" -> 5
    [] OTHER -> 0

EventOf(defect, sam) ==
  IF sam # 0 THEN 0
  ELSE CASE defect = "trigger" -> 1 [] defect = "badevent" -> 2 [] OTHER -> 0

GenData(file_schema, n_chan, recs, defect) ==
  LET all == Concat([k \in 1..Len(recs) |->
                       GenRecord(file_schema, n_chan, recs[k], EventOf(defect, k - 1))])
  IN  PySlice(all, 0, Max(Len(all) - CutOf(defect), 0))

GenErd(g) ==
  [file_schema |-> g.file_schema,
   base_schema |-> 1,
   sample_freq |-> 256 * g.file_schema,
   num_channels |-> g.n_chan,
   headbox_type |-> <<g.headbox, 0, 0, 0>>,
   discardbits |-> g.discardbits,
   data |-> GenData(g.file_schema, g.n_chan, g.recs, g.defect)]

\* The values the encoder's records stand for: channel c, sample s.
RECURSIVE GenTruth(_, _, _)
GenTruth(g, c, s) ==
  LET kind == KindOf(g.recs[s + 1], c)
      v == GenValue(g.file_schema, kind, c)
  IN  IF kind = "e" THEN v
      ELSE IF s = 0 THEN v
      ELSE GenTruth(g, c, s - 1) + v

\* Sequences of at most n elements of S.
SeqUpTo(S, n) == UNION {[1..k -> S] : k \in 0..n}

SegName(k) ==
  CASE k = 0 -> "rec" [] k = 1 -> "rec_001" [] k = 2 -> "rec_002"
    [] k = 3 -> "rec_003" [] k = 4 -> "rec_004" [] OTHER -> "rec_005"

NoCall == [op |-> "none"]

\* Only the constructor and return_hdr change the object, and no call
\* changes the directory; every other call leaves in the state nothing but
\* its own outcome, which the next call replaces.  A call made after such
\* a call therefore ends in the state it ends in when made before it, and
\* the calls are taken from the states whose last call is none, the
\* constructor or return_hdr.
Fresh == ret.op \in {"none", "Ktlx", "return_hdr"}

----------------------------------------------------------------------------
(* The decoder on one generated raw-data file.                             *)

\* The channel counts: 1..MaxChan, and one that needs a second mask byte.
ChanCounts == (1..MaxChan) \cup {BITS_IN_BYTE + 1}

ErdGens ==
  {[file_schema |-> fs, n_chan |-> n, headbox |-> 1, discardbits |-> 0,
    recs |-> recs, defect |-> d] :
     fs \in {7, 8, 9}, n \in ChanCounts,
     recs \in SeqUpTo([a : Kinds, b : Kinds], MaxSamples), d \in Defects}

InitErd ==
  /\ gen \in {g \in ErdGens :
                /\ (g.n_chan = 1 => \A k \in 1..Len(g.recs) : g.recs[k].b = "n")
                /\ (g.recs = << >> => g.defect = "none")}
  /\ dir = [name |-> SegName(0), eeg |-> {SegName(0)},
            erd |-> (SegName(0) :> GenErd(gen)), stc |-> [exists |-> FALSE]]
  /\ ktlx = NoObject
  /\ ret = NoCall

\* _read_erd(erd_file, n_samples) on a file of the directory.  The record
\* keeps the locals `output` and `i` beside the value returned.
ReadErd(name, n_samples) ==
  /\ Fresh
  /\ name \in DOMAIN dir.erd
  /\ LET d == Decode(dir.erd[name], n_samples)
         r == read_erd(dir.erd[name], n_samples)
     IN  ret' = [op |-> "read_erd", name |-> name, n_samples |-> n_samples,
                 status |-> r.status, value |-> r.value,
                 output |-> d.output, i |-> d.i]
  /\ UNCHANGED <<dir, gen, ktlx>>

NextErd == \E n_samples \in 0..(MaxSamples + 1) : ReadErd(SegName(0), n_samples)

SpecErd == InitErd /\ [][NextErd]_vars

----------------------------------------------------------------------------
(* Claims about the decoder, under SpecErd.                                *)

\* The state follows a call _read_erd(file, n_samples).
ErdCalled == ret.op = "read_erd"

\* The bytes of the first k records of the generated stream.
GenPrefixLen(g, k) ==
  Len(Concat([j \in 1..k |->
               GenRecord(g.file_schema, g.n_chan, g.recs[j], EventOf(g.defect, j - 1))]))

\* The complete sample records the file's bytes hold.
Available(g, file) ==
  CHOOSE k \in 0..Len(g.recs) :
    /\ GenPrefixLen(g, k) <= Len(file.data)
    /\ \A j \in (k + 1)..Len(g.recs) : GenPrefixLen(g, j) > Len(file.data)

\* The stream is complete for the request, with event bytes 0 or 1.
CompleteFor(g, n_samples) ==
  /\ g.defect \in {"none", "trigger"}
  /\ n_samples <= Len(g.recs)

NoEscape(g, n_samples) ==
  \A s \in 0..(n_samples - 1) : \A c \in 0..(g.n_chan - 1) :
    KindOf(g.recs[s + 1], c) # "e"

\* The sum of the deltas of channel c over samples 0..s.
RECURSIVE DeltaSum(_, _, _)
DeltaSum(g, c, s) ==
  IF s < 0 THEN 0
  ELSE DeltaSum(g, c, s - 1) + GenValue(g.file_schema, KindOf(g.recs[s + 1], c), c)

\* C3: for every channel count, every schema 7, 8, 9 and every complete
\* stream of non-escape deltas, the decoded matrix before scaling holds, for
\* channel c and sample s, the running sum of the channel's signed deltas
\* over samples 0..s, for every requested n_samples (1 included).
C3_RunningSum ==
  (ErdCalled /\ CompleteFor(gen, ret.n_samples) /\ NoEscape(gen, ret.n_samples))
    => /\ ret.status = "ok"
       /\ DOMAIN ret.output = 0..(gen.n_chan - 1)
       /\ \A c \in 0..(gen.n_chan - 1) :
            /\ DOMAIN ret.output[c] = 0..(ret.n_samples - 1)
            /\ \A s \in 0..(ret.n_samples - 1) :
                 ret.output[c][s] = DeltaSum(gen, c, s)

\* Two channels, schema 8, two samples mixing narrow and wide, positive and
\* negative deltas: channel 0 is 300, 305 and channel 1 is -3, -303.
C3_Witness ==
  /\ ErdCalled /\ ret.status = "ok" /\ ret.n_samples = 2
  /\ gen.file_schema = 8 /\ gen.n_chan = 2 /\ gen.defect = "none"
  /\ gen.recs = <<[a |-> "w", b |-> "n"], [a |-> "n", b |-> "w"]>>
  /\ ret.output[0][1] = 305 /\ ret.output[1][1] = 0 - 303

\* C4: a slot holding the escape value applies no delta; the channel's value
\* at that sample is the signed 32-bit absolute value read after the slots
\* (one per escaped channel, ascending), whatever the previous value was,
\* and a non-escape delta d at the next sample gives absolute value + d.
C4_Escape ==
  (ErdCalled /\ CompleteFor(gen, ret.n_samples))
    => /\ ret.status = "ok"
       /\ \A c \in 0..(gen.n_chan - 1) : \A s \in 0..(ret.n_samples - 1) :
            KindOf(gen.recs[s + 1], c) = "e"
              => /\ ret.output[c][s] = GenValue(gen.file_schema, "e", c)
                 /\ (s + 1 < ret.n_samples /\ KindOf(gen.recs[s + 2], c) # "e")
                      => ret.output[c][s + 1] =
                           GenValue(gen.file_schema, "e", c)
                             + GenValue(gen.file_schema, KindOf(gen.recs[s + 2], c), c)

\* Both channels escaped at sample 0, narrow deltas at sample 1: escape to
\* 1000 then +5 gives 1000, 1005 on channel 0, and -1001 then -3 gives
\* -1001, -1004 on channel 1.
C4_Witness ==
  /\ ErdCalled /\ ret.status = "ok" /\ ret.n_samples = 2
  /\ gen.file_schema = 8 /\ gen.n_chan = 2
  /\ gen.recs = <<[a |-> "e", b |-> "e"], [a |-> "n", b |-> "n"]>>
  /\ ret.output[0] = (0 :> 1000 @@ 1 :> 1005)
  /\ ret.output[1] = (0 :> (0 - 1001) @@ 1 :> (0 - 1004))

\* The columns of a returned matrix.
Columns(value) == IF DOMAIN value = {} THEN 0 ELSE Cardinality(DOMAIN value[0])

\* C5: when the bytes end inside the record of a sample or at a record
\* boundary and more samples are requested than the bytes hold, decoding
\* does not raise and reports exactly the fully decoded samples, without
\* zero-filled columns standing for the samples it could not decode.
C5_Truncation ==
  (/\ ErdCalled
   /\ gen.defect # "badevent"
   /\ ret.n_samples > Available(gen, dir.erd[ret.name]))
    => /\ ret.status = "ok"
       /\ Columns(ret.value) = Available(gen, dir.erd[ret.name])

\* C6: a sample record whose event byte is neither 0 nor 1 makes the decode
\* fail (strict policy, the default), so no matrix is returned.
C6_BadEventByte ==
  (ErdCalled /\ gen.defect = "badevent" /\ ret.n_samples >= 1)
    => ret.status # "ok"

\* The bit of channel c in the delta mask written for sample s: bit c mod 8,
\* least significant first, of mask byte floor(c / 8).
WrittenMaskBit(g, s, c) ==
  (GenMask(g.file_schema, g.n_chan, g.recs[s + 1])[(c \div 8) + 1]
     \div Pow2(c % 8)) % 2

\* The length of the sample record s by the record layout: the event byte,
\* the mask bytes, one byte per channel and one more for a channel whose
\* mask bit is 1, and 4 bytes per escaped channel.
RecordBytes(g, s) ==
  LET chans == 0..(g.n_chan - 1)
      wide == {c \in chans : g.file_schema # 7 /\ WrittenMaskBit(g, s, c) = 1}
      escaped == {c \in chans : KindOf(g.recs[s + 1], c) = "e"}
  IN  1 + (IF g.file_schema = 7 THEN 0 ELSE (g.n_chan + 7) \div 8)
        + g.n_chan + Cardinality(wide) + 4 * Cardinality(escaped)

RECURSIVE LayoutBytes(_, _)
LayoutBytes(g, k) == IF k = 0 THEN 0 ELSE LayoutBytes(g, k - 1) + RecordBytes(g, k - 1)

\* C13: decoding starts at byte 4560 (schema 7) or 8656 (schemas 8, 9), and
\* every complete sample record moves the cursor by 1 event byte, the mask
\* bytes (ceil(num_channels / 8), none for schema 7), per channel 2 bytes
\* when its mask bit is 1 and 1 byte otherwise, and 4 bytes per escaped
\* channel; all channels of the file are decoded, whoever asks.
C13_CursorSync ==
  (ErdCalled /\ CompleteFor(gen, ret.n_samples))
    => /\ ret.status = "ok"
       /\ DOMAIN ret.output = 0..(gen.n_chan - 1)
       /\ ret.i = (IF gen.file_schema = 7 THEN 4560 ELSE 8656)
                    + LayoutBytes(gen, ret.n_samples)

\* Nine channels, schema 9, two records: 17 bytes (two mask bytes, five
\* wide and four narrow slots), then 41 bytes (nine two-byte slots, five of
\* them escapes with their absolute values); the cursor ends at 8714.
C13_Witness ==
  /\ ErdCalled /\ ret.status = "ok" /\ ret.n_samples = 2
  /\ gen.file_schema = 9 /\ gen.n_chan = 9 /\ gen.defect = "none"
  /\ gen.recs = <<[a |-> "w", b |-> "n"], [a |-> "e", b |-> "w"]>>
  /\ RecordBytes(gen, 0) = 17 /\ RecordBytes(gen, 1) = 41
  /\ ret.i = 8714

----------------------------------------------------------------------------
(* The conversion factors of a raw-data file's header.                     *)

Headboxes == {0, 1, 3, 4, 21, 22}

InitConv ==
  /\ gen \in {[file_schema |-> fs, n_chan |-> n, headbox |-> hb, discardbits |-> db,
               recs |-> << >>, defect |-> "none"] :
                fs \in {7, 8}, n \in 1..MaxConvChan, hb \in Headboxes,
                db \in (0 - MaxDiscard)..MaxDiscard}
  /\ dir = [name |-> SegName(0), eeg |-> {SegName(0)},
            erd |-> (SegName(0) :> GenErd(gen)), stc |-> [exists |-> FALSE]]
  /\ ktlx = NoObject
  /\ ret = NoCall

\* _calculate_conversion(hdr) on the header of a file of the directory.
CalculateConversion(name) ==
  /\ Fresh
  /\ name \in DOMAIN dir.erd
  /\ read_hdr_file(dir.erd[name]).status = "ok"
  /\ LET hdr == read_hdr_file(dir.erd[name]).hdr
         r == calculate_conversion(hdr)
     IN  ret' = [op |-> "calculate_conversion", name |-> name,
                 status |-> r.status, value |-> r.factor]
  /\ UNCHANGED <<dir, gen, ktlx>>

NextConv ==
  \/ CalculateConversion(SegName(0))
  \/ \E n_samples \in 0..1 : ReadErd(SegName(0), n_samples)

SpecConv == InitConv /\ [][NextConv]_vars

\* C10: for every recognized headbox type, every discard-bit count and
\* every channel count, the conversion vector has exactly num_channels
\* entries, so that it scales every row of the decoded matrix; for headbox
\* type 1 all entries are equal.
C10_ConversionLength ==
  /\ (ret.op = "calculate_conversion" /\ gen.headbox \in {1, 3, 4, 21, 22})
       => /\ ret.status = "ok"
          /\ Len(ret.value) = gen.n_chan
          /\ (gen.headbox = 1
                => \A j, k \in 1..Len(ret.value) : ret.value[j] = ret.value[k])
  /\ (ErdCalled /\ gen.headbox \in {1, 3, 4, 21, 22})
       => /\ ret.status = "ok"
          /\ DOMAIN ret.value = 0..(gen.n_chan - 1)

----------------------------------------------------------------------------
(* Recordings: a directory with its .eeg file, one .erd file per segment   *)
(* and the .stc file naming them.                                          *)

KindSeq == <<"n", "w", "e">>

\* The records of segment k (0-based): the slot kinds change with the
\* segment and the sample.
SegRecs(k, span) ==
  [s \in 1..span |-> [a |-> KindSeq[((k + s) % 3) + 1],
                      b |-> KindSeq[((k + 2 * s) % 3) + 1]]]

SegGen(g, k) ==
  [file_schema |-> g.file_schema, n_chan |-> g.n_chan, headbox |-> g.headbox,
   discardbits |-> g.discardbits, recs |-> SegRecs(k, g.spans[k + 1]),
   defect |-> "none"]

\* The raw-data file of segment k; its header holds the base schema and
\* the channel count of the recording's description.
SegErd(g, k) ==
  [GenErd(SegGen(g, k)) EXCEPT !.base_schema = g.base_schema,
                               !.num_channels = g.hdr_chan]

\* The name of the files of segment k: the first is named as the directory.
GenName(g, k) == IF k = 0 THEN g.dirname ELSE SegName(k)

\* The stamps: sample_num accumulates the spans; `skew` is added to the
\* sample_num of the last record (0 in a consistent index).
GenStamps(g) ==
  [k \in 1..Len(g.spans) |->
     [segment_name |-> GenName(g, k - 1),
      start_stamp |-> SumTo(g.spans, k - 1),
      end_stamp |-> SumTo(g.spans, k) - 1,
      sample_num |-> SumTo(g.spans, k - 1)
                       + (IF k = Len(g.spans) /\ k > 1 THEN g.skew ELSE 0),
      sample_span |-> g.spans[k]]]

GenDir(g) ==
  [name |-> g.dirname,
   eeg |-> g.eeg,
   erd |-> [n \in {GenName(g, k) : k \in 0..(Len(g.spans) - 1)} |->
              SegErd(g, CHOOSE k \in 0..(Len(g.spans) - 1) : GenName(g, k) = n)],
   stc |-> [exists |-> TRUE, name |-> g.dirname, partial |-> g.partial,
            records |-> GenStamps(g)]]

\* Well-formed recordings, with a consistent or a skewed index.
GoodGens ==
  {[file_schema |-> fs, base_schema |-> 1, n_chan |-> n, hdr_chan |-> n,
    headbox |-> 1, discardbits |-> db, spans |-> spans, skew |-> skew,
    dirname |-> SegName(0), eeg |-> {SegName(0)}, partial |-> FALSE] :
     fs \in {7, 8}, n \in 1..MaxChan, db \in {MaxDiscard},
     spans \in SeqUpTo(1..MaxSpan, MaxSeg) \ {<< >>}, skew \in {0, 1}}

\* One-segment recordings with any schema, base schema and .eeg files.
OddGens ==
  {[file_schema |-> fs, base_schema |-> bs, n_chan |-> 1, hdr_chan |-> 1,
    headbox |-> 1, discardbits |-> 0, spans |-> <<1>>, skew |-> 0,
    dirname |-> SegName(0), eeg |-> eeg, partial |-> partial] :
     fs \in {0, 1, 5, 7, 8, 9, 10}, bs \in {0, 1, 2},
     eeg \in {{}, {SegName(0)}, {"other"}, {"other", "more"}},
     partial \in BOOLEAN}

\* The least channel count whose phys_chan table runs past the end of a
\* file of that schema with 8 bytes of data or fewer (one sample record
\* of one channel).
OverrunChan(file_schema) == (HeaderBytes(file_schema) + 8 - 368) \div 4 + 1

\* Recordings of one channel in three segments of one sample whose headers
\* tell another channel count, whose discardbits is negative, or whose
\* directory name holds a dot.
EdgeGens ==
  UNION {{[file_schema |-> fs, base_schema |-> 1, n_chan |-> 1, hdr_chan |-> hc,
           headbox |-> 1, discardbits |-> db, spans |-> <<1, 1, 1>>, skew |-> 0,
           dirname |-> dn, eeg |-> {dn}, partial |-> FALSE] :
            hc \in {0 - 1, 0, 1, OverrunChan(fs)},
            db \in {0 - MaxDiscard, 0}, dn \in {SegName(0), "rec.v1"}} :
         fs \in {7, 8}}

InitKtlx ==
  /\ gen \in {g \in GoodGens : Len(g.spans) # 2 => g.skew = 0}
               \cup OddGens \cup EdgeGens
  /\ dir = GenDir(gen)
  /\ ktlx = NoObject
  /\ ret = NoCall

\* k = Ktlx(ktlx_dir): the object, unless the constructor raises.
KtlxInit(is_str) ==
  /\ ret = NoCall
  /\ LET r == Ktlx_init(dir, is_str)
     IN  /\ ktlx' = r.obj
         /\ ret' = [op |-> "Ktlx", is_str |-> is_str, status |-> r.status]
  /\ UNCHANGED <<dir, gen>>

\* k.return_dat(chan, begsam, endsam)
ReturnDat(chan, begsam, endsam) ==
  /\ Fresh
  /\ ktlx # NoObject
  /\ LET r == return_dat(dir, ktlx, chan, begsam, endsam)
     IN  ret' = [op |-> "return_dat", chan |-> chan, begsam |-> begsam,
                 endsam |-> endsam, status |-> r.status,
                 value |-> IF r.status = "ok" THEN r.dat ELSE << >>,
                 opened |-> r.opened]
  /\ UNCHANGED <<dir, gen, ktlx>>

\* k.return_hdr()
ReturnHdr ==
  /\ Fresh
  /\ ktlx # NoObject
  /\ LET r == return_hdr(ktlx)
     IN  /\ ret' = [op |-> "return_hdr", status |-> r.status,
                    s_freq |-> r.s_freq, chan_name |-> r.chan_name,
                    n_samples |-> r.n_samples]
         /\ ktlx' = r.self
  /\ UNCHANGED <<dir, gen>>

\* _read_hdr_file(ktlx_file) on a file of the directory.
ReadHdrFile(name) ==
  /\ Fresh
  /\ LET r == read_hdr_named(dir, name)
     IN  ret' = [op |-> "read_hdr_file", name |-> name,
                 status |-> r.status, value |-> r.hdr]
  /\ UNCHANGED <<dir, gen, ktlx>>

\* _read_stc(stc_file) on the directory's .stc file.
ReadStc ==
  /\ Fresh
  /\ LET r == read_stc(dir.stc)
     IN  ret' = [op |-> "read_stc", status |-> r.status, value |-> r.all_stamp]
  /\ UNCHANGED <<dir, gen, ktlx>>

TotalSamples(g) == SumTo(g.spans, Len(g.spans))

\* The channel lists requested; a single channel is also given as an int.
ChanRequests(n_chan) ==
  {[list |-> <<n_chan - 1>>]}
    \cup (IF n_chan >= 2 THEN {[list |-> <<1, 0>>]} ELSE {})

\* No channel, and channels counted from the last.
EdgeRequests == {[list |-> << >>], [list |-> <<0 - 1>>], [list |-> <<0, 0 - 1>>]}

NextKtlx ==
  \/ \E is_str \in BOOLEAN : KtlxInit(is_str)
  \/ \E chan \in ChanRequests(gen.n_chan) :
       \E begsam, endsam \in 0..(TotalSamples(gen) + 1) :
         ReturnDat(chan, begsam, endsam)
  \/ \E begsam, endsam \in 0..(TotalSamples(gen) + 1) :
       ReturnDat([int |-> 0], begsam, endsam)
  \/ \E chan \in EdgeRequests : \E endsam \in 0..(TotalSamples(gen) + 1) :
       ReturnDat(chan, 0, endsam)
  \/ ReadHdrFile(dir.name)
  \/ ReadStc
  \/ ReturnHdr

SpecKtlx == InitKtlx /\ [][NextKtlx]_vars

----------------------------------------------------------------------------
(* Claims about recordings, under SpecKtlx.                                *)

\* The state follows k.return_dat(...) on an object built from a str path.
DatCalled == ret.op = "return_dat" /\ "filename" \in ktlx.attrs

\* The recording is well-formed and its index consistent: the stored
\* sample_num of every record is the sum of the spans before it.
Consistent(g) ==
  /\ g.file_schema \in {7, 8, 9} /\ g.base_schema = 1
  /\ g.dirname = SegName(0) /\ g.eeg = {SegName(0)} /\ ~g.partial
  /\ g.hdr_chan = g.n_chan
  /\ g.skew = 0

ChanList(chan) == IF IsInt(chan) THEN <<chan.int>> ELSE chan.list

\* The segment (0-based) that holds global sample s.
SegmentOf(g, s) ==
  CHOOSE k \in 0..(Len(g.spans) - 1) :
    SumTo(g.spans, k) <= s /\ s < SumTo(g.spans, k + 1)

\* The physical value of global sample s of channel c: what the encoder's
\* records of its segment stand for, times the channel's factor.
TruthValue(g, c, s) ==
  LET k == SegmentOf(g, s)
  IN  Mul([band |-> BandEEG, mult |-> DiscardFactor(g.discardbits)],
          GenTruth(SegGen(g, k), c, s - SumTo(g.spans, k)))

\* The requested channels are channels of the file, counted from the first.
ChannelsOfFile(chan, n_chan) ==
  \A j \in 1..Len(ChanList(chan)) : ChanList(chan)[j] \in 0..(n_chan - 1)

\* C1: on a consistent recording, for 0 <= begin < end <= total samples,
\* inside one segment or across several, return_dat completes and returns
\* one row per requested channel, in request order, with end - begin
\* columns, column j holding global sample begin + j of the channel.
C1_ReturnDat ==
  (/\ DatCalled /\ Consistent(gen)
   /\ ChannelsOfFile(ret.chan, gen.n_chan)
   /\ 0 <= ret.begsam /\ ret.begsam < ret.endsam
   /\ ret.endsam <= TotalSamples(gen))
    => /\ ret.status = "ok"
       /\ DOMAIN ret.value = 0..(Len(ChanList(ret.chan)) - 1)
       /\ \A r \in 0..(Len(ChanList(ret.chan)) - 1) :
            /\ DOMAIN ret.value[r] = 0..(ret.endsam - ret.begsam - 1)
            /\ \A j \in 0..(ret.endsam - ret.begsam - 1) :
                 ret.value[r][j] =
                   TruthValue(gen, ChanList(ret.chan)[r + 1], ret.begsam + j)

\* The matrices a and b side by side.
ConcatColumns(a, b) ==
  [r \in DOMAIN a |->
     LET na == Cardinality(DOMAIN a[r])
         nb == Cardinality(DOMAIN b[r])
     IN  [c \in 0..(na + nb - 1) |-> IF c < na THEN a[r][c] ELSE b[r][c - na]]]

\* C2: for two adjacent segments with shared boundary sample b and any
\* begin < b < end within the two, return_dat(chan, begin, end) equals
\* return_dat(chan, begin, b) and return_dat(chan, b, end) side by side.
C2_SplitAtBoundary ==
  (DatCalled /\ Consistent(gen))
    => \A k \in 1..(Len(gen.spans) - 1) :
         LET b == SumTo(gen.spans, k)
         IN  (/\ SumTo(gen.spans, k - 1) <= ret.begsam /\ ret.begsam < b
              /\ b < ret.endsam /\ ret.endsam <= SumTo(gen.spans, k + 1))
               => LET left == return_dat(dir, ktlx, ret.chan, ret.begsam, b)
                      right == return_dat(dir, ktlx, ret.chan, b, ret.endsam)
                  IN  /\ ret.status = "ok"
                      /\ left.status = "ok" /\ right.status = "ok"
                      /\ ret.value = ConcatColumns(left.dat, right.dat)

UnsupportedSchema(file) == file.file_schema \notin {1, 7, 8, 9}
UnsupportedBaseSchema(file) == ~UnsupportedSchema(file) /\ file.base_schema # 1

\* C7: reading the header of a file whose schema is not 1, 7, 8 or 9 fails
\* with the unsupported-schema error; with a supported schema and a base
\* schema other than 1 it fails with the unsupported-base-schema error; the
\* schema is checked first, no header is returned, and Ktlx(dir) over such a
\* raw-data file raises, so that no object is produced.
C7_UnsupportedHeader ==
  LET file == dir.erd[dir.name]
  IN  /\ (ret.op = "read_hdr_file" /\ UnsupportedSchema(file))
           => /\ ret.status = "NotImplementedError file_schema"
              /\ ret.value = NoObject
      /\ (ret.op = "read_hdr_file" /\ UnsupportedBaseSchema(file))
           => /\ ret.status = "NotImplementedError base_schema"
              /\ ret.value = NoObject
      /\ (/\ ret.op = "Ktlx" /\ ret.is_str
          /\ (UnsupportedSchema(file) \/ UnsupportedBaseSchema(file)))
           => /\ ret.status # "ok"
              /\ ktlx = NoObject
              /\ (dir.name \in dir.eeg /\ UnsupportedSchema(file))
                   => ret.status = "NotImplementedError file_schema"
              /\ (dir.name \in dir.eeg /\ UnsupportedBaseSchema(file))
                   => ret.status = "NotImplementedError base_schema"

\* Ktlx(dir) over a raw-data file of schema 5 and base schema 0: the
\* constructor raised the schema error and left no object.
C7_Witness ==
  /\ ret.op = "Ktlx" /\ ret.is_str
  /\ dir.erd[dir.name].file_schema = 5
  /\ dir.erd[dir.name].base_schema = 0
  /\ dir.name \in dir.eeg
  /\ ret.status = "NotImplementedError file_schema"
  /\ ktlx = NoObject

\* C8: building the segment index checks, for every record after the
\* first, that its stored cumulative offset is the previous record's offset
\* plus the previous record's span, and fails otherwise; so every index
\* that is returned satisfies offset[i] = offset[i-1] + span[i-1].
C8_IndexConsistent ==
  (ret.op = "read_stc" /\ ret.status = "ok")
    => \A i \in 2..Len(ret.value) :
         ret.value[i].sample_num =
           ret.value[i - 1].sample_num + ret.value[i - 1].sample_span

\* C9: the first segment a request opens is the unique segment whose
\* [offset, offset + span) holds begin, and a request whose begin or end
\* lies beyond the total sample count fails before any segment file is
\* opened, returning no matrix.
C9_OutOfRange ==
  (DatCalled /\ Consistent(gen) /\ ret.begsam < ret.endsam)
    => /\ (ret.endsam <= TotalSamples(gen) /\ ret.opened # << >>)
            => ret.opened[1] = SegName(SegmentOf(gen, ret.begsam))
       /\ (ret.begsam > TotalSamples(gen) \/ ret.endsam > TotalSamples(gen))
            => /\ ret.status # "ok"
               /\ ret.opened = << >>

\* C12: every object whose construction completes without raising holds
\* filename, _basename and _hdr; return_hdr on it gives the sample rate and
\* the channel count of the raw-data header and, as n_samples, the sum of
\* the segment spans; and a read inside its first segment is decoded.
C12_NoPartialHandle ==
  /\ (ret.op = "Ktlx" /\ ret.status = "ok")
       => /\ ktlx.attrs = {"filename", "_basename", "_hdr"}
          /\ return_hdr(ktlx).status = "ok"
  /\ ret.op = "return_hdr"
       => /\ ret.status = "ok"
          /\ ret.s_freq = dir.erd[ktlx.basename].sample_freq
          /\ ret.chan_name = dir.erd[ktlx.basename].num_channels
          /\ ret.n_samples = TotalSamples(gen)
  /\ (/\ ret.op = "return_dat"
      /\ ChannelsOfFile(ret.chan, gen.hdr_chan)
      /\ 0 <= ret.begsam /\ ret.begsam < ret.endsam
      /\ ret.endsam <= gen.spans[1])
       => ret.status = "ok"

====
